---- MODULE Spec2Model ----
(***************************************************************************)
(* The clock-driving testbench src/sim/sim_main.cpp as a state machine.    *)
(* One action per statement of main; pc names the line about to execute.   *)
(* The Verilated runtime and the generated Vtop model are external: the    *)
(* calls into them are recorded in the order main makes them.              *)
(***************************************************************************)
EXTENDS Integers, Sequences, FiniteSets, TLC

\* ---------------------------------------------------------------- bounds
\* At most MaxExtraArgs command-line arguments follow the program name.
MaxExtraArgs == 2

\* The argument words a run may be started with.
ArgWords == {"+trace", "20"}

VARIABLES
    pc,         \* the line of main about to execute, or "done" / "fault"
    argc,       \* main's argc
    argv,       \* main's argv, a sequence of words
    vlArgs,     \* what Verilated::commandArgs was handed: <<>> or <<argc, argv>>
    top,        \* the pointer top: "null" (not yet assigned), "live", "deleted"
    clk,        \* top->clk, the clock input of the instance
    i,          \* the loop counter of the for statement
    body,       \* the values of i with which the loop body was entered, in order
    calls,      \* operations on the instance in program order:
                \*   <<"new">>, <<"clk", v>> (write v), <<"eval", v>> (clk = v
                \*   when eval() is entered), <<"delete">>
    out,        \* what main itself wrote to std::cout, in order
    exitStatus  \* <<>> while main runs, <<s>> once main returned s

vars == <<pc, argc, argv, vlArgs, top, clk, i, body, calls, out, exitStatus>>

\* ------------------------------------------------------ program constants
\* const int cycles = 10;
cyclesFromArgc == 9 + argc

cycles == 10

\* ---------------------------------------------------------------- helpers
RECURSIVE SeqsUpTo(_, _)
SeqsUpTo(S, n) ==
    IF n = 0 THEN {<<>>}
    ELSE LET shorter == SeqsUpTo(S, n - 1)
         IN  shorter \cup {Append(s, w) : s \in {t \in shorter : Len(t) = n - 1}, w \in S}

\* The argument vectors: the program name, then up to MaxExtraArgs words.
ArgVectors == {<<"Vtop">> \o s : s \in SeqsUpTo(ArgWords, MaxExtraArgs)}

\* ------------------------------------------------------------------- Init
\* The state at entry to main: nothing constructed, nothing written.
Init ==
    /\ pc = "L6"
    /\ argv \in ArgVectors
    /\ argc = Len(argv)
    /\ vlArgs = <<>>
    /\ top = "null"
    /\ clk = 0
    /\ i = 0
    /\ body = <<>>
    /\ calls = <<>>
    /\ out = <<>>
    /\ exitStatus = <<>>

\* ---------------------------------------------------------------- actions
\* Verilated::commandArgs(argc, argv);
CommandArgs ==
    /\ pc = "L6"
    /\ vlArgs' = <<argc, argv>>
    /\ pc' = "L7"
    /\ UNCHANGED <<argc, argv, top, clk, i, body, calls, out, exitStatus>>

\* Vtop* top = new Vtop;   the constructor leaves the 1-bit input clk at a
\* value the generated model chooses.
NewVtop ==
    /\ pc = "L7"
    /\ top' = "live"
    /\ clk' \in {0, 1}
    /\ calls' = Append(calls, <<"new">>)
    /\ pc' = "L10"
    /\ UNCHANGED <<argc, argv, vlArgs, i, body, out, exitStatus>>

\* A write top->clk = v, leading to the line next.
WriteClk(here, v, next) ==
    /\ pc = here
    /\ clk' = v
    /\ calls' = Append(calls, <<"clk", v>>)
    /\ pc' = next
    /\ UNCHANGED <<argc, argv, vlArgs, top, i, body, out, exitStatus>>

\* top->clk = 0;   (const int cycles = 10; on the next line has no effect
\* on the state: cycles is the constant above)
InitClk == WriteClk("L10", 0, "L13init")

\* for (int i = 0; ...
ForInit ==
    /\ pc = "L13init"
    /\ i' = 0
    /\ pc' = "L13test"
    /\ UNCHANGED <<argc, argv, vlArgs, top, clk, body, calls, out, exitStatus>>

\* ... i < cycles; ...
LoopCondLe(k) == k <= cycles

LoopCond(k) == k < cycles

\* The loop condition holds: enter the body.
ForEnter ==
    /\ pc = "L13test"
    /\ LoopCond(i)
    /\ body' = Append(body, i)
    /\ pc' = "L15"
    /\ UNCHANGED <<argc, argv, vlArgs, top, clk, i, calls, out, exitStatus>>

\* The loop condition fails: leave the loop.
ForExit ==
    /\ pc = "L13test"
    /\ ~LoopCond(i)
    /\ pc' = "L23"
    /\ UNCHANGED <<argc, argv, vlArgs, top, clk, i, body, calls, out, exitStatus>>

\* top->clk = 1;
RiseMissing ==
    /\ pc = "L15"
    /\ pc' = "L16"
    /\ UNCHANGED <<argc, argv, vlArgs, top, clk, i, body, calls, out, exitStatus>>

Rise == WriteClk("L15", 1, "L16")

\* A call top->eval() that returns, leading to the line next.  eval() reads
\* the input clk and does not write it.
EvalAt(here, next) ==
    /\ pc = here
    /\ calls' = Append(calls, <<"eval", clk>>)
    /\ pc' = next
    /\ UNCHANGED <<argc, argv, vlArgs, top, clk, i, body, out, exitStatus>>

\* top->eval();   after the rising edge
EvalHigh == EvalAt("L16", "L19")

\* top->clk = 0;
FallStaysHigh == WriteClk("L19", 1, "L20")

Fall == WriteClk("L19", 0, "L20")

\* top->eval();   after the falling edge
EvalLowSkipped ==
    /\ pc = "L20"
    /\ pc' = "L13incr"
    /\ UNCHANGED <<argc, argv, vlArgs, top, clk, i, body, calls, out, exitStatus>>

EvalLow == EvalAt("L20", "L13incr")

\* A call top->eval() that does not return: the generated model ends the
\* process itself (a fatal error raised inside the model).
EvalFault ==
    /\ pc \in {"L16", "L20"}
    /\ calls' = Append(calls, <<"eval", clk>>)
    /\ pc' = "fault"
    /\ UNCHANGED <<argc, argv, vlArgs, top, clk, i, body, out, exitStatus>>

\* ... ++i)
NextIDec(k) == k - 1

NextI(k) == k + 1

ForIncr ==
    /\ pc = "L13incr"
    /\ i' = NextI(i)
    /\ pc' = "L13test"
    /\ UNCHANGED <<argc, argv, vlArgs, top, clk, body, calls, out, exitStatus>>

\* std::cout << "Sim done\n";
SimDoneSilent ==
    /\ pc = "L23"
    /\ pc' = "L24"
    /\ UNCHANGED <<argc, argv, vlArgs, top, clk, i, body, calls, out, exitStatus>>

SimDoneTwice ==
    /\ pc = "L23"
    /\ out' = out \o <<"Sim done\n", "Sim done\n">>
    /\ pc' = "L24"
    /\ UNCHANGED <<argc, argv, vlArgs, top, clk, i, body, calls, exitStatus>>

SimDone ==
    /\ pc = "L23"
    /\ out' = Append(out, "Sim done\n")
    /\ pc' = "L24"
    /\ UNCHANGED <<argc, argv, vlArgs, top, clk, i, body, calls, exitStatus>>

\* delete top;
DeleteTopLeak ==
    /\ pc = "L24"
    /\ pc' = "L25"
    /\ UNCHANGED <<argc, argv, vlArgs, top, clk, i, body, calls, out, exitStatus>>

DeleteTop ==
    /\ pc = "L24"
    /\ top' = "deleted"
    /\ calls' = Append(calls, <<"delete">>)
    /\ pc' = "L25"
    /\ UNCHANGED <<argc, argv, vlArgs, clk, i, body, out, exitStatus>>

\* return 0;
ReturnFailure ==
    /\ pc = "L25"
    /\ exitStatus' = <<1>>
    /\ pc' = "done"
    /\ UNCHANGED <<argc, argv, vlArgs, top, clk, i, body, calls, out>>

Return ==
    /\ pc = "L25"
    /\ exitStatus' = <<0>>
    /\ pc' = "done"
    /\ UNCHANGED <<argc, argv, vlArgs, top, clk, i, body, calls, out>>

\* The steps of a run in which every eval() returns.
NextReturns ==
    \/ CommandArgs
    \/ NewVtop
    \/ InitClk
    \/ ForInit
    \/ ForEnter
    \/ ForExit
    \/ Rise
    \/ EvalHigh
    \/ Fall
    \/ EvalLow
    \/ ForIncr
    \/ SimDone
    \/ DeleteTop
    \/ Return

Next ==
    \/ NextReturns
    \/ EvalFault

\* Every run main can make, eval() returning or not.
Spec == Init /\ [][Next]_vars

\* The runs in which every eval() returns; main is one sequential thread
\* that never waits, so an enabled statement is executed.
SpecReturns == Init /\ [][NextReturns]_vars /\ WF_vars(NextReturns)

\* ------------------------------------------------------------ properties
\* The calls of kind op, in order.
CallsOf(op) == SelectSeq(calls, LAMBDA c : c[1] = op)

\* The positions of calls at which a call of kind op stands.
PosOf(op) == {k \in 1..Len(calls) : calls[k][1] = op}

\* The values written to clk, in order, and the values eval() saw, in order.
ClkWrites == [k \in 1..Len(CallsOf("clk")) |-> CallsOf("clk")[k][2]]
EvalSees == [k \in 1..Len(CallsOf("eval")) |-> CallsOf("eval")[k][2]]

\* The lines after the loop, and the end of main.
AfterLoop == {"L23", "L24", "L25", "done"}

\* The lines of the loop body.
InBody == {"L15", "L16", "L19", "L20", "L13incr"}

\* Whether s is an initial part of t.
IsPrefix(s, t) == Len(s) <= Len(t) /\ \A k \in 1..Len(s) : s[k] = t[k]

\* C1: the loop body is entered with i = 0, 1, 2, ... in this order, at most
\* 10 times; inside the body i is the value it was entered with; and once
\* the loop is left the body has run exactly 10 times (i = 0..9) and i = 10.
C1_LoopRunsCycles ==
    /\ Len(body) <= 10
    /\ \A k \in 1..Len(body) : body[k] = k - 1
    /\ pc \in InBody => Len(body) = i + 1
    /\ pc \in AfterLoop => Len(body) = 10 /\ i = 10

C1_Witness == pc = "L23" /\ body = <<0, 1, 2, 3, 4, 5, 6, 7, 8, 9>> /\ i = 10

\* C2: the writes to clk alternate in value, so each write in the loop
\* changes clk; each such write is followed by an eval() and then by no
\* second eval(); every eval() directly follows a write to clk; and a full
\* run has made 20 eval() calls, 10 after a rising and 10 after a falling
\* edge.
C2_EvalOnEachEdge ==
    /\ \A k \in 1..(Len(ClkWrites) - 1) : ClkWrites[k] # ClkWrites[k + 1]
    /\ \A k \in PosOf("clk") :
          k > 2 =>
            /\ k + 1 <= Len(calls) => calls[k + 1][1] = "eval"
            /\ k + 2 <= Len(calls) => calls[k + 2][1] # "eval"
    /\ \A k \in PosOf("eval") : k > 1 /\ calls[k - 1][1] = "clk" /\ k - 1 > 2
    /\ pc \in AfterLoop =>
          /\ Len(EvalSees) = 2 * 10
          /\ Cardinality({k \in PosOf("eval") : calls[k - 1] = <<"clk", 1>>}) = 10
          /\ Cardinality({k \in PosOf("eval") : calls[k - 1] = <<"clk", 0>>}) = 10

C2_Witness ==
    /\ pc = "done"
    /\ Len(CallsOf("eval")) = 20
    /\ Len(CallsOf("clk")) = 21

\* C3 as stated: the driver writes nothing of its own, during or after the
\* run of the clock cycles.
C3_DriverSilent == out = <<>>

\* C3 amended: the driver's own output is nothing while the clock cycles
\* are driven, and after the loop exactly the one line "Sim done\n".
C3_OnlySimDone ==
    /\ pc \notin {"L24", "L25", "done"} => out = <<>>
    /\ pc \in {"L24", "L25", "done"} => out = <<"Sim done\n">>

C3_Witness == pc = "L25" /\ out = <<"Sim done\n">> /\ Len(body) = 10

\* C4: the first operation on the instance is its creation and there is no
\* second one; every clk write and eval() comes after the creation and
\* before the deletion; the deletion happens at most once, is the last
\* operation, and has happened exactly once when main ends; top is live
\* exactly between the two.
C4_OneOwnedInstance ==
    /\ calls # <<>> => calls[1] = <<"new">>
    /\ Cardinality(PosOf("new")) <= 1
    /\ Cardinality(PosOf("delete")) <= 1
    /\ \A d \in PosOf("delete") : d = Len(calls)
    /\ \A k \in PosOf("clk") \cup PosOf("eval") :
          /\ \E n \in PosOf("new") : n < k
          /\ \A d \in PosOf("delete") : k < d
    /\ top = "null" <=> PosOf("new") = {}
    /\ top = "live" <=> PosOf("new") # {} /\ PosOf("delete") = {}
    /\ top = "deleted" <=> PosOf("delete") # {}
    /\ pc \in {"L25", "done"} =>
          /\ top = "deleted"
          /\ Cardinality(PosOf("delete")) = 1
          /\ calls[Len(calls) - 1] = <<"eval", 0>>

C4_Witness ==
    /\ pc = "done"
    /\ top = "deleted"
    /\ calls[Len(calls)] = <<"delete">>
    /\ Len(CallsOf("eval")) = 20

\* C5: main has no error exit: the only status it returns is 0, it has
\* returned exactly when it is at its end, it stops nowhere but at its end
\* or inside an eval() that does not return, and that non-returning eval()
\* is the last thing that happened.
C5_NoErrorExit ==
    /\ exitStatus \in {<<>>, <<0>>}
    /\ pc = "done" <=> exitStatus = <<0>>
    /\ pc \notin {"done", "fault"} => ENABLED NextReturns
    /\ pc = "fault" => calls # <<>> /\ calls[Len(calls)][1] = "eval" /\ out = <<>>

C5_Witness == pc = "done" /\ exitStatus = <<0>> /\ Len(CallsOf("eval")) = 20

\* C6: when every eval() returns, main reaches its end, with the loop left,
\* "Sim done" written, the instance deleted and the status returned; and the
\* loop counter never goes down and goes up at each ++i.
C6_Terminates ==
    /\ <>(pc = "done" /\ i = 10 /\ out # <<>> /\ top = "deleted" /\ exitStatus # <<>>)
    /\ [][i' >= i /\ (pc = "L13incr" => i' > i)]_vars

C6_Witness == pc = "done" /\ i = 10 /\ Len(body) = 10 /\ top = "deleted"

C8_EvalSeesAlternating ==
    /\ Len(EvalSees) <= 20
    /\ \A k \in 1..Len(EvalSees) : EvalSees[k] = k % 2
    /\ pc \in AfterLoop => Len(EvalSees) = 20 /\ EvalSees[20] = 0

C8_Witness ==
    /\ pc = "L24"
    /\ Len(EvalSees) = 20
    /\ EvalSees[1] = 1
    /\ EvalSees[20] = 0

\* The operations a full run performs on the instance, whatever argc and
\* argv are.
RECURSIVE Cycles(_)
Cycles(n) ==
    IF n = 0 THEN <<>>
    ELSE Cycles(n - 1) \o << <<"clk", 1>>, <<"eval", 1>>, <<"clk", 0>>, <<"eval", 0>> >>

FullRun == << <<"new">>, <<"clk", 0>> >> \o Cycles(10) \o << <<"delete">> >>

\* C9: for every argc and argv, what has been done to the instance so far
\* is an initial part of the one fixed sequence of 10 cycles, and all of it
\* when main ends; the arguments go to Verilated::commandArgs unchanged and
\* main never changes them.
C9_SameRunForAllArgs ==
    /\ IsPrefix(calls, FullRun)
    /\ pc = "done" => calls = FullRun
    /\ pc # "L6" => vlArgs = <<argc, argv>>
    /\ argc = Len(argv)

C9_Witness == pc = "done" /\ argc = 3 /\ argv[3] = "20" /\ calls = FullRun

\* C10: "Sim done" is written at most once; when it has been written all
\* 10 cycles were driven and the 20th eval() was made; it is written while
\* the instance is still live, so before the deletion; and a run that
\* reaches the deletion or the end of main has written it exactly once.
C10_SimDoneOnceAfterLastEval ==
    /\ Len(out) <= 1
    /\ out # <<>> =>
          /\ out = <<"Sim done\n">>
          /\ Len(CallsOf("eval")) = 20
          /\ Len(body) = cycles
          /\ pc \in {"L24", "L25", "done"}
    /\ pc = "L24" => top = "live" /\ PosOf("delete") = {}
    /\ PosOf("delete") # {} => Len(out) = 1
    /\ pc \in {"L24", "L25", "done"} => Len(out) = 1

C10_Witness ==
    /\ pc = "L24"
    /\ out = <<"Sim done\n">>
    /\ top = "live"
    /\ calls[Len(calls)] = <<"eval", 0>>

====
